---- MODULE Spec2Model ----
(***************************************************************************)
(* Model of src/app.py: eight FastAPI route handlers over two MySQL tables *)
(* (products, cart_items) accessed through SQLAlchemy sessions.            *)
(*                                                                         *)
(* Store semantics taken from the declarations in the source:              *)
(*   - both primary keys are AUTO_INCREMENT integers (lines 15, 23);       *)
(*   - cart_items.product_id is a foreign key on products.id with          *)
(*     ON DELETE CASCADE (line 24), enforced by the engine;                *)
(*   - sessions are autocommit=False, autoflush=False (line 9): pending    *)
(*     INSERT/UPDATE/DELETE statements are flushed by db.commit(), so the  *)
(*     flush and the commit form one step on the committed state;          *)
(*   - the engine runs at its default isolation (REPEATABLE READ): the     *)
(*     SELECTs of one transaction read the read view its first SELECT      *)
(*     establishes, so consecutive SELECTs with no commit in between are   *)
(*     one step; UPDATE and DELETE act on the latest committed rows.       *)
(* Prices are Python floats (doubles) in the handlers and a Float column in *)
(* the table, which MySQL creates as FLOAT, IEEE single precision. The     *)
(* model uses non-negative integers, on which the handlers' double         *)
(* multiplication and addition are exact, and rounds a stored price to 24  *)
(* significant bits.                                                       *)
(***************************************************************************)
EXTENDS Integers, Sequences, FiniteSets, TLC

\* Python None / SQL NULL
None == "None"

\* Concurrent HTTP clients, each with its own request-scoped session (get_db).
Clients == {1, 2}

\* Bound on the number of requests issued in one behaviour.
MaxRequests == 4

\* Identifiers a client may name in a path or query parameter.
IdParams == {1, 2}

\* Quantities a client may send to POST /cart/.
Quantities == {2, 3}

\* Product payloads (schema Product: id, name, price, description).
Widget == [id |-> 7, name |-> "Widget", price |-> 3, description |-> None]

Gadget == [id |-> 1, name |-> "Gadget", price |-> 5, description |-> "small"]

\* A price with more than 24 significant bits (2^24 + 1).
Ingot == [id |-> 2, name |-> "Ingot", price |-> 16777217, description |-> None]

\* Request bodies of POST /products/.
Batches == {<<Widget>>, <<Gadget, Ingot>>}

VARIABLES
    products,         \* table products: id -> [name, price, description]
    cart,             \* table cart_items: set of [id, product_id, quantity]
    nextProductId,    \* AUTO_INCREMENT counter of products.id
    nextCartId,       \* AUTO_INCREMENT counter of cart_items.id
    pc,               \* per client: position in its handler
    req,              \* per client: the request being served
    loc,              \* per client: the handler's locals and session state
    resp,             \* per client: the HTTP response
    serial,           \* TRUE when clients send requests one after another
    nreq,             \* number of requests issued so far
    origin,           \* history: the creations in order, [id, row as given in the request]
    deletedIds,       \* history: ids of products whose deletion was committed
    added,            \* history: product id -> sum of committed add-to-cart quantities
    removedFromCart   \* history: product ids whose cart row a removal deleted

vars == <<products, cart, nextProductId, nextCartId, pc, req, loc, resp,
          serial, nreq, origin, deletedIds, added, removedFromCart>>

db == <<products, cart, nextProductId, nextCartId>>

hist == <<origin, deletedIds, added, removedFromCart>>

----------------------------------------------------------------------------
\* Helpers on the two tables.

RowsOf(rows, product_id) == {r \in rows : r.product_id = product_id}

RowById(rows, id) == CHOOSE r \in rows : r.id = id

HasRow(rows, id) == \E r \in rows : r.id = id

\* Restriction of a function to a subset of its domain.
Restrict(f, S) == [x \in S |-> f[x]]

\* ProductDB(name=..., price=..., description=...): the id of the payload is not passed.
ProductDB(product) ==
    [name |-> product.name, price |-> product.price, description |-> product.description]

\* The identifier a new products row gets: the AUTO_INCREMENT value.
AssignedProductId(product, nextId) == nextId

\* f with x mapped to v, x added to the domain when new.
Extend(f, x, v) == [y \in DOMAIN f \cup {x} |-> IF y = x THEN v ELSE f[y]]

\* price = Column(Float): the value as a MySQL FLOAT holds it, rounded to 24
\* significant bits, ties to even.
RECURSIVE FloatUlp(_, _)
FloatUlp(x, u) == IF x \div u < 2^24 THEN u ELSE FloatUlp(x, 2 * u)

FloatColumn(x) ==
    LET u == FloatUlp(x, 1)
        q == x \div u
        r == x % u
    IN  IF 2 * r > u \/ (2 * r = u /\ q % 2 = 1) THEN (q + 1) * u ELSE q * u

\* INSERT INTO products.
InsertProduct(prods, id, row) ==
    Extend(prods, id, [row EXCEPT !.price = FloatColumn(row.price)])

\* Faulty variant: the product row is not deleted.
DeleteProductRows_Kept(prods, id) == prods

\* Faulty variant: the foreign key has no ON DELETE CASCADE.
CascadeCartItems_None(rows, id) == rows

\* DELETE FROM products WHERE id = ..., and what ON DELETE CASCADE does to cart_items.
DeleteProductRows(prods, id) == Restrict(prods, DOMAIN prods \ {id})

CascadeCartItems(rows, id) == {r \in rows : r.product_id # id}

\* Serialisation through response_model=Product.
ProductOut(prods, id) ==
    [id |-> id, name |-> prods[id].name, price |-> prods[id].price,
     description |-> prods[id].description]

\* Faulty variant: an absent product is returned as an empty body instead of raising 404.
GetProductResult_Unchecked(prods, product_id) ==
    IF product_id \in DOMAIN prods
    THEN [status |-> 200, body |-> ProductOut(prods, product_id)]
    ELSE [status |-> 200, body |-> None]

\* get_product: the row or HTTPException(404).
GetProductResult(prods, product_id) ==
    IF product_id \in DOMAIN prods
    THEN [status |-> 200, body |-> ProductOut(prods, product_id)]
    ELSE [status |-> 404, body |-> "Product not found"]

\* Faulty variant: the quantity is overwritten instead of incremented.
IncrementedQuantity_Overwrite(old, quantity) == quantity

\* cart_item.quantity += quantity
IncrementedQuantity(old, quantity) == old + quantity

\* The flush of add_to_cart's pending UPDATE: SET quantity = <value computed in Python>.
UpdateCartRow(rows, id, quantity) ==
    {IF r.id = id THEN [r EXCEPT !.quantity = quantity] ELSE r : r \in rows}

\* The flush of add_to_cart's pending INSERT.
InsertCartRow(rows, id, product_id, quantity) ==
    rows \cup {[id |-> id, product_id |-> product_id, quantity |-> quantity]}

\* Faulty variant: the cart row is not deleted.
DeleteCartRow_Kept(rows, id) == rows

\* db.delete(cart_item); flush.
DeleteCartRow(rows, id) == {r \in rows : r.id # id}

\* db.query(CartItemDB).all(): the rows in primary-key order.
RECURSIVE AllCartItems(_)
AllCartItems(rows) ==
    IF rows = {} THEN <<>>
    ELSE LET first == CHOOSE r \in rows : \A s \in rows : r.id <= s.id
         IN  <<first>> \o AllCartItems(rows \ {first})

\* item_total = item.quantity * item.product.price
ItemTotal(item, prods) == item.quantity * prods[item.product_id].price

CartItemResponse(item, prods) ==
    [product_id |-> item.product_id,
     product_name |-> prods[item.product_id].name,
     quantity |-> item.quantity,
     price_per_unit |-> prods[item.product_id].price,
     price_as_per_count |-> ItemTotal(item, prods)]

\* Faulty variant: the total is overwritten by each line total instead of accumulated.
Accumulate_Overwrite(total_price, item_total) == item_total

\* total_price += item_total
Accumulate(total_price, item_total) == total_price + item_total

\* The loop of get_cart_total_price over cart_items[i..], from the accumulators so far.
RECURSIVE CartTotalLoop(_, _, _, _, _)
CartTotalLoop(cart_items, i, prods, items_response, total_price) ==
    IF i > Len(cart_items)
    THEN [items |-> items_response, total_price |-> total_price]
    ELSE CartTotalLoop(cart_items, i + 1, prods,
                       Append(items_response, CartItemResponse(cart_items[i], prods)),
                       Accumulate(total_price, ItemTotal(cart_items[i], prods)))

----------------------------------------------------------------------------
\* Client state.

NoReq == [kind |-> "none", id |-> 0, quantity |-> 0, batch |-> <<>>]

NoLoc == [k |-> 0, created |-> <<>>, new_id |-> 0, row |-> 0, product_id |-> 0,
          quantity |-> 0, pending |-> "none", commits |-> 0]

NoResp == [status |-> 0, body |-> None]

Requests ==
    {[kind |-> "create", id |-> 0, quantity |-> 0, batch |-> b] : b \in Batches}
    \cup {[kind |-> k, id |-> i, quantity |-> 0, batch |-> <<>>] :
            k \in {"get", "delete", "remove"}, i \in IdParams}
    \cup {[kind |-> "add", id |-> i, quantity |-> q, batch |-> <<>>] :
            i \in IdParams, q \in Quantities}
    \cup {[kind |-> "total", id |-> 0, quantity |-> 0, batch |-> <<>>]}

FirstStep(kind) ==
    CASE kind = "create" -> "create_insert"
      [] kind = "get"    -> "get_query"
      [] kind = "delete" -> "delete_query"
      [] kind = "add"    -> "add_query"
      [] kind = "total"  -> "total_query"
      [] kind = "remove" -> "remove_query"

InFlight(c) == pc[c] \notin {"idle", "done"}

InitCommon ==
    /\ products = <<>>
    /\ cart = {}
    /\ nextProductId = 1
    /\ nextCartId = 1
    /\ pc = [c \in Clients |-> "idle"]
    /\ req = [c \in Clients |-> NoReq]
    /\ loc = [c \in Clients |-> NoLoc]
    /\ resp = [c \in Clients |-> NoResp]
    /\ nreq = 0
    /\ origin = <<>>
    /\ deletedIds = {}
    /\ added = <<>>
    /\ removedFromCart = {}

Init == InitCommon /\ serial = FALSE

InitSerial == InitCommon /\ serial = TRUE

\* A client sends a request; get_db opens its session.
Start(c) ==
    /\ pc[c] \in {"idle", "done"}
    /\ nreq < MaxRequests
    /\ serial => \A d \in Clients : ~InFlight(d)
    /\ \E r \in Requests :
         /\ req' = [req EXCEPT ![c] = r]
         /\ pc' = [pc EXCEPT ![c] = FirstStep(r.kind)]
         /\ loc' = [loc EXCEPT ![c] = [NoLoc EXCEPT !.k = 1]]
    /\ resp' = [resp EXCEPT ![c] = NoResp]
    /\ nreq' = nreq + 1
    /\ UNCHANGED <<db, serial, hist>>

\* The handler ends: the response is sent and get_db closes the session.
Finish(c, status, body) ==
    /\ pc' = [pc EXCEPT ![c] = "done"]
    /\ resp' = [resp EXCEPT ![c] = [status |-> status, body |-> body]]

----------------------------------------------------------------------------
\* create_products (lines 72-83)

\* db.add(db_product); db.commit() for the k-th product of the batch.
CreateInsert(c) ==
    /\ pc[c] = "create_insert"
    /\ LET product == req[c].batch[loc[c].k]
           id == AssignedProductId(product, nextProductId)
       IN  /\ products' = InsertProduct(products, id, ProductDB(product))
           /\ nextProductId' = nextProductId + 1
           /\ origin' = Append(origin, [id |-> id, row |-> ProductDB(product)])
           /\ added' = Extend(added, id, 0)
           /\ loc' = [loc EXCEPT ![c].new_id = id, ![c].commits = @ + 1]
    /\ pc' = [pc EXCEPT ![c] = "create_refresh"]
    /\ UNCHANGED <<cart, nextCartId, req, resp, serial, nreq, deletedIds, removedFromCart>>

\* Faulty variant: the batch is one transaction, so a failure rolls the earlier insertions back.
CreateInsertFails_Rollback(c) ==
    /\ pc[c] = "create_insert"
    /\ products' = Restrict(products, DOMAIN products \
                               {loc[c].created[i] : i \in 1..Len(loc[c].created)})
    /\ Finish(c, 500, "Internal Server Error")
    /\ UNCHANGED <<cart, nextProductId, nextCartId, req, loc, serial, nreq, hist>>

\* The k-th insertion raises (a database error): the exception leaves the loop,
\* the session is closed and the request ends with a server error.
CreateInsertFails(c) ==
    /\ pc[c] = "create_insert"
    /\ Finish(c, 500, "Internal Server Error")
    /\ UNCHANGED <<db, req, loc, serial, nreq, hist>>

\* db.refresh(db_product); created_products.append(db_product); after the last
\* product, return created_products (serialised from the rows of the same read view).
CreateRefresh(c) ==
    /\ pc[c] = "create_refresh"
    /\ LET created == Append(loc[c].created, loc[c].new_id)
       IN  IF loc[c].new_id \notin DOMAIN products
           THEN /\ Finish(c, 500, "Internal Server Error")
                /\ UNCHANGED loc
           ELSE IF loc[c].k < Len(req[c].batch)
           THEN /\ loc' = [loc EXCEPT ![c].created = created, ![c].k = @ + 1]
                /\ pc' = [pc EXCEPT ![c] = "create_insert"]
                /\ UNCHANGED resp
           ELSE /\ loc' = [loc EXCEPT ![c].created = created]
                /\ IF \A i \in 1..Len(created) : created[i] \in DOMAIN products
                   THEN Finish(c, 200, [i \in 1..Len(created) |-> ProductOut(products, created[i])])
                   ELSE Finish(c, 500, "Internal Server Error")
    /\ UNCHANGED <<db, req, serial, nreq, hist>>

----------------------------------------------------------------------------
\* get_product (lines 91-96)

GetProduct(c) ==
    /\ pc[c] = "get_query"
    /\ LET r == GetProductResult(products, req[c].id)
       IN  Finish(c, r.status, r.body)
    /\ UNCHANGED <<db, req, loc, serial, nreq, hist>>

----------------------------------------------------------------------------
\* delete_product (lines 99-107)

DeleteQuery(c) ==
    /\ pc[c] = "delete_query"
    /\ IF req[c].id \in DOMAIN products
       THEN /\ pc' = [pc EXCEPT ![c] = "delete_commit"]
            /\ UNCHANGED resp
       ELSE Finish(c, 404, "Product not found")
    /\ UNCHANGED <<db, req, loc, serial, nreq, hist>>

\* db.delete(product); db.commit(). A DELETE that matches no row only warns.
DeleteCommit(c) ==
    /\ pc[c] = "delete_commit"
    /\ products' = DeleteProductRows(products, req[c].id)
    /\ cart' = CascadeCartItems(cart, req[c].id)
    /\ deletedIds' = deletedIds \cup {req[c].id}
    /\ loc' = [loc EXCEPT ![c].commits = @ + 1]
    /\ Finish(c, 200, "Product deleted")
    /\ UNCHANGED <<nextProductId, nextCartId, req, serial, nreq, origin, added, removedFromCart>>

----------------------------------------------------------------------------
\* add_to_cart (lines 110-125)

\* Lines 112-121: both SELECTs and the change made to the session, not yet flushed.
AddQuery(c) ==
    /\ pc[c] = "add_query"
    /\ IF req[c].id \notin DOMAIN products
       THEN /\ Finish(c, 404, "Product not found")
            /\ UNCHANGED loc
       ELSE /\ pc' = [pc EXCEPT ![c] = "add_commit"]
            /\ UNCHANGED resp
            /\ IF RowsOf(cart, req[c].id) = {}
               THEN loc' = [loc EXCEPT ![c].pending = "insert",
                                       ![c].product_id = req[c].id,
                                       ![c].quantity = req[c].quantity]
               ELSE \E cart_item \in RowsOf(cart, req[c].id) :
                      loc' = [loc EXCEPT ![c].pending = "update",
                                         ![c].row = cart_item.id,
                                         ![c].product_id = cart_item.product_id,
                                         ![c].quantity =
                                             IncrementedQuantity(cart_item.quantity, req[c].quantity)]
    /\ UNCHANGED <<db, req, serial, nreq, hist>>

\* Line 123: flush and commit. The UPDATE of a row that is gone raises
\* StaleDataError; the INSERT for a product that is gone violates the foreign key.
AddCommit(c) ==
    /\ pc[c] = "add_commit"
    /\ IF loc[c].pending = "update"
       THEN IF HasRow(cart, loc[c].row)
            THEN /\ cart' = UpdateCartRow(cart, loc[c].row, loc[c].quantity)
                 /\ added' = [added EXCEPT ![loc[c].product_id] = @ + req[c].quantity]
                 /\ loc' = [loc EXCEPT ![c].commits = @ + 1]
                 /\ pc' = [pc EXCEPT ![c] = "add_refresh"]
                 /\ UNCHANGED <<nextCartId, resp>>
            ELSE /\ Finish(c, 500, "Internal Server Error")
                 /\ UNCHANGED <<cart, nextCartId, added, loc>>
       ELSE IF loc[c].product_id \in DOMAIN products
            THEN /\ cart' = InsertCartRow(cart, nextCartId, loc[c].product_id, loc[c].quantity)
                 /\ nextCartId' = nextCartId + 1
                 /\ added' = [added EXCEPT ![loc[c].product_id] = @ + req[c].quantity]
                 /\ loc' = [loc EXCEPT ![c].row = nextCartId, ![c].commits = @ + 1]
                 /\ pc' = [pc EXCEPT ![c] = "add_refresh"]
                 /\ UNCHANGED resp
            ELSE /\ Finish(c, 500, "Internal Server Error")
                 /\ UNCHANGED <<cart, nextCartId, added, loc>>
    /\ UNCHANGED <<products, nextProductId, req, serial, nreq, origin, deletedIds, removedFromCart>>

\* Lines 124-125: db.refresh(cart_item) re-reads the row; the response carries it.
AddRefresh(c) ==
    /\ pc[c] = "add_refresh"
    /\ IF HasRow(cart, loc[c].row)
       THEN Finish(c, 200, [product_id |-> RowById(cart, loc[c].row).product_id,
                            quantity |-> RowById(cart, loc[c].row).quantity])
       ELSE Finish(c, 500, "Internal Server Error")
    /\ UNCHANGED <<db, req, loc, serial, nreq, hist>>

----------------------------------------------------------------------------
\* get_cart_total_price (lines 128-149): one read view; item.product of a row
\* without a product is None, and None.price raises.

GetCartTotalPrice(c) ==
    /\ pc[c] = "total_query"
    /\ LET cart_items == AllCartItems(cart)
       IN  IF \E i \in 1..Len(cart_items) : cart_items[i].product_id \notin DOMAIN products
           THEN Finish(c, 500, "Internal Server Error")
           ELSE Finish(c, 200, CartTotalLoop(cart_items, 1, products, <<>>, 0))
    /\ UNCHANGED <<db, req, loc, serial, nreq, hist>>

----------------------------------------------------------------------------
\* remove_cart_item (lines 152-172)

\* Lines 155-160.
RemoveQuery(c) ==
    /\ pc[c] = "remove_query"
    /\ IF ~HasRow(cart, req[c].id)
       THEN /\ Finish(c, 404, "Cart item not found")
            /\ UNCHANGED loc
       ELSE /\ loc' = [loc EXCEPT ![c].row = req[c].id,
                                  ![c].product_id = RowById(cart, req[c].id).product_id]
            /\ pc' = [pc EXCEPT ![c] = "remove_commit_item"]
            /\ UNCHANGED resp
    /\ UNCHANGED <<db, req, serial, nreq, hist>>

\* Lines 163-164: db.delete(cart_item); db.commit().
RemoveCommitItem(c) ==
    /\ pc[c] = "remove_commit_item"
    /\ cart' = DeleteCartRow(cart, loc[c].row)
    /\ removedFromCart' = IF HasRow(cart, loc[c].row)
                          THEN removedFromCart \cup {loc[c].product_id}
                          ELSE removedFromCart
    /\ loc' = [loc EXCEPT ![c].commits = @ + 1]
    /\ pc' = [pc EXCEPT ![c] = "remove_query_product"]
    /\ UNCHANGED <<products, nextProductId, nextCartId, req, resp, serial, nreq,
                   origin, deletedIds, added>>

\* Lines 167-168, and line 172 when the product is already gone.
RemoveQueryProduct(c) ==
    /\ pc[c] = "remove_query_product"
    /\ IF loc[c].product_id \in DOMAIN products
       THEN /\ pc' = [pc EXCEPT ![c] = "remove_commit_product"]
            /\ UNCHANGED resp
       ELSE Finish(c, 200, [product_id |-> loc[c].product_id, quantity |-> 0])
    /\ UNCHANGED <<db, req, loc, serial, nreq, hist>>

\* The handler fails after its first commit (the query of line 167 raises).
RemoveFails(c) ==
    /\ pc[c] = "remove_query_product"
    /\ Finish(c, 500, "Internal Server Error")
    /\ UNCHANGED <<db, req, loc, serial, nreq, hist>>

\* Lines 169-172: db.delete(product_to_delete); db.commit(); return.
RemoveCommitProduct(c) ==
    /\ pc[c] = "remove_commit_product"
    /\ products' = DeleteProductRows(products, loc[c].product_id)
    /\ cart' = CascadeCartItems(cart, loc[c].product_id)
    /\ deletedIds' = deletedIds \cup {loc[c].product_id}
    /\ loc' = [loc EXCEPT ![c].commits = @ + 1]
    /\ Finish(c, 200, [product_id |-> loc[c].product_id, quantity |-> 0])
    /\ UNCHANGED <<nextProductId, nextCartId, req, serial, nreq, origin, added, removedFromCart>>

----------------------------------------------------------------------------

Next ==
    \E c \in Clients :
        \/ Start(c)
        \/ CreateInsert(c)
        \/ CreateInsertFails(c)
        \/ CreateRefresh(c)
        \/ GetProduct(c)
        \/ DeleteQuery(c)
        \/ DeleteCommit(c)
        \/ AddQuery(c)
        \/ AddCommit(c)
        \/ AddRefresh(c)
        \/ GetCartTotalPrice(c)
        \/ RemoveQuery(c)
        \/ RemoveCommitItem(c)
        \/ RemoveQueryProduct(c)
        \/ RemoveFails(c)
        \/ RemoveCommitProduct(c)

\* Clients whose requests interleave step by step.
Spec == Init /\ [][Next]_vars

\* Clients whose requests are handled one after another.
SpecSerial == InitSerial /\ [][Next]_vars

----------------------------------------------------------------------------
\* Properties.

Done(c, kind, status) ==
    req[c].kind = kind /\ pc[c] = "done" /\ resp[c].status = status

RECURSIVE SumQuantity(_)
SumQuantity(rows) ==
    IF rows = {} THEN 0
    ELSE LET r == CHOOSE x \in rows : TRUE
         IN  r.quantity + SumQuantity(rows \ {r})

RECURSIVE SumLineTotals(_, _)
SumLineTotals(rows, prods) ==
    IF rows = {} THEN 0
    ELSE LET r == CHOOSE x \in rows : TRUE
         IN  r.quantity * prods[r.product_id].price + SumLineTotals(rows \ {r}, prods)

\* The commit of add_to_cart as the contract describes it: one new row (p, q) when
\* the product has no row, else the quantity of its row raised by q and no row added.
AddEffect(c) ==
    LET p == req[c].id
        q == req[c].quantity
    IN  IF RowsOf(cart, p) = {}
        THEN /\ Cardinality(cart') = Cardinality(cart) + 1
             /\ \E r \in cart' \ cart :
                  /\ r.product_id = p
                  /\ r.quantity = q
                  /\ cart' = cart \cup {r}
        ELSE /\ Cardinality(cart') = Cardinality(cart)
             /\ \E r \in RowsOf(cart, p) :
                  cart' = (cart \ {r}) \cup {[r EXCEPT !.quantity = r.quantity + q]}

AddResponse(c) ==
    /\ resp'[c].status = 200
    /\ Cardinality(RowsOf(cart, req[c].id)) = 1
    /\ \E r \in RowsOf(cart, req[c].id) :
         resp'[c].body = [product_id |-> req[c].id, quantity |-> r.quantity]

\* C1: with requests handled one after another, a successful add-to-cart of
\* quantity q for product p inserts the single row (p, q) when p has no cart row
\* and otherwise raises the quantity of p's row by q without adding a row; the
\* response carries p and the resulting quantity; a product whose row was never
\* removed has exactly one row holding the sum of the quantities added.
C1_AddToCartSerial ==
    /\ [][\A c \in Clients :
            /\ (pc[c] = "add_commit" /\ pc'[c] # "add_commit")
                  => (pc'[c] = "add_refresh" /\ AddEffect(c))
            /\ (pc[c] = "add_refresh" /\ pc'[c] # "add_refresh") => AddResponse(c)]_vars
    /\ [](\A p \in DOMAIN products :
            (p \notin removedFromCart /\ added[p] > 0)
               => \E r \in cart : RowsOf(cart, p) = {r} /\ r.quantity = added[p])

C1_Witness ==
    \E c \in Clients :
        /\ Done(c, "add", 200)
        /\ loc[c].pending = "update"
        /\ resp[c].body.quantity = 5
        /\ Cardinality(RowsOf(cart, req[c].id)) = 1

\* C2: a remove-cart-item that found its cart row and ran to completion leaves
\* that row and the product it referenced absent, so get-by-id on the product
\* signals 404; its response is {product_id: that product, quantity: 0}.
C2_RemoveDeletesRowAndProduct ==
    \A c \in Clients :
        Done(c, "remove", 200)
           => /\ ~HasRow(cart, req[c].id)
              /\ loc[c].product_id \notin DOMAIN products
              /\ GetProductResult(products, loc[c].product_id).status = 404
              /\ resp[c].body = [product_id |-> loc[c].product_id, quantity |-> 0]

C2_Witness ==
    \E c \in Clients :
        /\ Done(c, "remove", 200)
        /\ loc[c].commits = 2
        /\ loc[c].product_id \in deletedIds

\* C3: view-total returns one item per cart row, whose line total is the row's
\* quantity times the referenced product's stored price, and total_price is the
\* sum of these line totals over the cart rows (0 for an empty cart).
C3_CartTotal ==
    [][\A c \in Clients :
         (pc[c] = "total_query" /\ pc'[c] # "total_query")
            => /\ resp'[c].status = 200
               /\ LET body == resp'[c].body
                      n == Len(body.items)
                  IN  /\ n = Cardinality(cart)
                      /\ \E f \in [1..n -> cart] :
                           /\ \A i, j \in 1..n : f[i] = f[j] => i = j
                           /\ \A i \in 1..n :
                                body.items[i] =
                                  [product_id |-> f[i].product_id,
                                   product_name |-> products[f[i].product_id].name,
                                   quantity |-> f[i].quantity,
                                   price_per_unit |-> products[f[i].product_id].price,
                                   price_as_per_count |->
                                       f[i].quantity * products[f[i].product_id].price]
                      /\ body.total_price = SumLineTotals(cart, products)]_vars

C3_Witness ==
    \E c \in Clients :
        /\ Done(c, "total", 200)
        /\ Len(resp[c].body.items) = 2
        /\ resp[c].body.items[1].price_per_unit # resp[c].body.items[2].price_per_unit
        /\ resp[c].body.total_price =
             resp[c].body.items[1].price_as_per_count + resp[c].body.items[2].price_as_per_count

TargetAbsent(c) ==
    IF req[c].kind = "remove" THEN ~HasRow(cart, req[c].id)
    ELSE req[c].id \notin DOMAIN products

\* C4: get-product, delete-product and add-to-cart naming no existing product,
\* and remove-cart-item naming no existing cart row, signal 404 and leave the
\* products and the cart rows as they were.
C4_NotFoundChangesNothing ==
    [][\A c \in Clients :
         (/\ pc[c] \in {"get_query", "delete_query", "add_query", "remove_query"}
          /\ pc'[c] # pc[c]
          /\ TargetAbsent(c))
            => /\ pc'[c] = "done"
               /\ resp'[c].status = 404
               /\ loc[c].commits = 0
               /\ products' = products
               /\ cart' = cart]_vars

C4_Witness ==
    \E c, d \in Clients :
        /\ Done(c, "remove", 404)
        /\ Done(d, "add", 404)
        /\ DOMAIN products # {}

\* C5: the identifier of a created product is assigned by the server, whatever
\* identifier the request carried, and is never that of another product; while
\* the product exists get-by-id returns the name, price and description given at
\* creation, and once its deletion is committed get-by-id signals 404.
C5_ProductLifecycle ==
    /\ \A i, j \in 1..Len(origin) : i < j => origin[i].id < origin[j].id
    /\ \A id \in DOMAIN products :
         \E i \in 1..Len(origin) :
            /\ origin[i].id = id
            /\ GetProductResult(products, id) =
                 [status |-> 200,
                  body |-> [id |-> id, name |-> origin[i].row.name,
                            price |-> origin[i].row.price,
                            description |-> origin[i].row.description]]
    /\ \A id \in deletedIds : GetProductResult(products, id).status = 404
    /\ \A c \in Clients :
         Done(c, "create", 200)
            => /\ Len(resp[c].body) = Len(req[c].batch)
               /\ \A i \in 1..Len(req[c].batch) :
                    /\ resp[c].body[i].name = req[c].batch[i].name
                    /\ resp[c].body[i].price = req[c].batch[i].price
                    /\ resp[c].body[i].description = req[c].batch[i].description
                    /\ \E k \in 1..Len(origin) : origin[k].id = resp[c].body[i].id
               /\ \A i, j \in 1..Len(req[c].batch) :
                    i # j => resp[c].body[i].id # resp[c].body[j].id

\* C6: bulk create commits product by product, in request order: when the
\* insertion of the k-th product fails, the k-1 products before it stay
\* persisted and no product from position k on is persisted.
C6_BulkCreateNotAtomic ==
    [][\A c \in Clients :
            /\ (pc[c] = "create_insert" /\ pc'[c] = "create_refresh")
                  => LET product == req[c].batch[loc[c].k]
                     IN  /\ loc'[c].new_id \notin DOMAIN products
                         /\ DOMAIN products' = DOMAIN products \cup {loc'[c].new_id}
                         /\ \A id \in DOMAIN products : products'[id] = products[id]
                         /\ products'[loc'[c].new_id].name = product.name
                         /\ products'[loc'[c].new_id].description = product.description
            /\ (pc[c] = "create_insert" /\ pc'[c] = "done")
                  => LET n == loc[c].k - 1
                     IN  /\ resp'[c].status = 500
                         /\ products' = products
                         /\ Len(loc[c].created) = n
                         /\ \A i \in 1..n :
                              /\ loc[c].created[i] \in DOMAIN products
                              /\ products[loc[c].created[i]].name = req[c].batch[i].name
                              /\ products[loc[c].created[i]].description =
                                   req[c].batch[i].description
                         /\ \A id \in DOMAIN products :
                              id >= nextProductId - n
                                 => \E i \in 1..n : loc[c].created[i] = id]_vars

C6_Witness ==
    \E c \in Clients :
        /\ Done(c, "create", 500)
        /\ loc[c].k = 2
        /\ Len(loc[c].created) = 1
        /\ loc[c].created[1] \in DOMAIN products

\* C7: in every reachable state, requests of concurrent clients included, there
\* is at most one cart row per product.
C7_AtMostOneRowPerProduct ==
    \A r, s \in cart : r.product_id = s.product_id => r = s

\* C8: every cart row references a product that exists: deleting a product
\* removes the cart rows that reference it, an add-to-cart whose product is
\* deleted before its commit leaves no row, and view-total never meets a cart
\* row without a product.
C8_CartRowsReferenceProducts ==
    /\ \A r \in cart : r.product_id \in DOMAIN products
    /\ \A c \in Clients : (req[c].kind = "total" /\ pc[c] = "done") => resp[c].status = 200

C8_Witness ==
    /\ \E c \in Clients :
         /\ Done(c, "add", 500)
         /\ loc[c].pending = "insert"
         /\ loc[c].product_id \in deletedIds
    /\ \E p \in deletedIds : added[p] > 0 /\ p \notin removedFromCart

\* C9 (as stated): add-to-cart and remove-cart-item each make two separate commits.
C9_TwoCommitsEach ==
    \A c \in Clients :
        (pc[c] = "done" /\ resp[c].status = 200)
           => /\ req[c].kind = "add" => loc[c].commits = 2
              /\ req[c].kind = "remove"
                    => (loc[c].commits = 2
                        \/ (loc[c].commits = 1 /\ loc[c].product_id \in deletedIds))

\* C9 (amended): remove-cart-item makes two separate commits, and between them, also
\* when the handler fails there, the cart row is deleted while the product is
\* untouched by this request; add-to-cart makes a single commit and has no
\* intermediate committed state.
C9_CommitStructure ==
    \A c \in Clients :
        /\ req[c].kind = "add"
              => /\ pc[c] \in {"add_query", "add_commit"} => loc[c].commits = 0
                 /\ pc[c] = "add_refresh" => loc[c].commits = 1
                 /\ loc[c].commits <= 1
                 /\ Done(c, "add", 200) => loc[c].commits = 1
        /\ req[c].kind = "remove"
              => /\ pc[c] \in {"remove_query_product", "remove_commit_product"}
                       => (loc[c].commits = 1 /\ ~HasRow(cart, loc[c].row))
                 /\ Done(c, "remove", 500)
                       => (loc[c].commits = 1 /\ ~HasRow(cart, loc[c].row))
                 /\ Done(c, "remove", 200)
                       => (loc[c].commits = 2
                           \/ (loc[c].commits = 1 /\ loc[c].product_id \in deletedIds))

C9_Witness ==
    \E c \in Clients :
        /\ Done(c, "remove", 500)
        /\ ~HasRow(cart, loc[c].row)
        /\ loc[c].product_id \in DOMAIN products
        /\ loc[c].product_id \notin deletedIds

\* C10: for a product that exists and was never removed from the cart, once the
\* add-to-cart requests for it have completed, the quantities of its cart rows
\* sum to the sum of the quantities the successful requests added.
C10_NoQuantityLost ==
    \A p \in DOMAIN products :
        (/\ p \notin removedFromCart
         /\ \A c \in Clients : ~(req[c].kind = "add" /\ req[c].id = p /\ InFlight(c)))
           => SumQuantity(RowsOf(cart, p)) = added[p]

====
